---- MODULE Spec2Model ----
(***************************************************************************)
(* TheGab: TikTok scraper (Apify) + restaurant extraction + Supabase       *)
(* upload.  State-machine model of src/apify_scraper.py,                   *)
(* src/upload_to_supabase.py and the metrics of src/thegab_scraper.py.     *)
(*                                                                         *)
(* Text is a sequence of one-character strings; an absent text is         *)
(* NoneText.  An absent string-valued local is None.  An optional list is *)
(* <<>> when absent and <<list>> when present.  Times are whole seconds.  *)
(***************************************************************************)
EXTENDS Integers, Sequences, FiniteSets, TLC

\* Python's None where a plain string is expected
None == "None"
\* Python's None where a text (sequence of characters) is expected
NoneText == <<"None">>

\* ------------------------------------------------------------------------
\* Bounds of the model
\* ------------------------------------------------------------------------
\* captions of the extraction specification are built from at most this
\* many fragments
MaxFrags == 3
\* a fetched dataset holds at most this many raw records
MaxRecords == 2
\* a direct call of a persister gets at most this many posts / rows
MaxPosts == 2
\* the metrics csv read by upload_to_supabase.py has at most this many rows
MaxCsvRows == 2
\* scrape_tiktok_hashtag of thegab_scraper.py returns at most this many posts
MaxBatch == 2

\* ------------------------------------------------------------------------
\* Text helpers (Python str / re semantics)
\* ------------------------------------------------------------------------
UpperCase ==
    <<"A","B","C","D","E","F","G","H","I","J","K","L","M",
      "N","O","P","Q","R","S","T","U","V","W","X","Y","Z">>

LowerCase ==
    <<"a","b","c","d","e","f","g","h","i","j","k","l","m",
      "n","o","p","q","r","s","t","u","v","w","x","y","z">>

\* str.lower() on one character
LowerChar(c) ==
    IF \E i \in 1..Len(UpperCase) : UpperCase[i] = c
    THEN LowerCase[CHOOSE i \in 1..Len(UpperCase) : UpperCase[i] = c]
    ELSE c

\* str.lower()
Lower(s) == [i \in 1..Len(s) |-> LowerChar(s[i])]

\* the characters matched by \s (and so not by \S)
Whitespace == {" ", "\t", "\n"}

\* s[i..] starts with p
StartsWith(s, i, p) ==
    /\ i + Len(p) - 1 <= Len(s)
    /\ SubSeq(s, i, i + Len(p) - 1) = p

\* `needle in hay` for Python strings
IsSubstring(needle, hay) ==
    \E i \in 1..(Len(hay) - Len(needle) + 1) : StartsWith(hay, i, needle)

\* length of the maximal run of \S characters starting at position i
RECURSIVE NonSpaceRun(_, _)
NonSpaceRun(s, i) ==
    IF i > Len(s) \/ s[i] \in Whitespace THEN 0
    ELSE 1 + NonSpaceRun(s, i + 1)

\* length of the match of  http\S+|www\S+  at position i, 0 when none;
\* the pattern is case sensitive
UrlMatchLen(s, i) ==
    IF StartsWith(s, i, <<"h","t","t","p">>) /\ NonSpaceRun(s, i + 4) >= 1
    THEN 4 + NonSpaceRun(s, i + 4)
    ELSE IF StartsWith(s, i, <<"w","w","w">>) /\ NonSpaceRun(s, i + 3) >= 1
         THEN 3 + NonSpaceRun(s, i + 3)
         ELSE 0

\* re.sub(r'http\S+|www\S+', '', text), scanning from position i
RECURSIVE RemoveUrls(_, _)
RemoveUrls(s, i) ==
    IF i > Len(s) THEN <<>>
    ELSE LET m == UrlMatchLen(s, i)
         IN  IF m > 0 THEN RemoveUrls(s, i + m)
             ELSE <<s[i]>> \o RemoveUrls(s, i + 1)

\* re.sub(r'\s+', ' ', text), scanning from position i
RECURSIVE CollapseWhitespace(_, _)
CollapseWhitespace(s, i) ==
    IF i > Len(s) THEN <<>>
    ELSE IF s[i] \in Whitespace
         THEN IF i > 1 /\ s[i - 1] \in Whitespace
              THEN CollapseWhitespace(s, i + 1)
              ELSE <<" ">> \o CollapseWhitespace(s, i + 1)
         ELSE <<s[i]>> \o CollapseWhitespace(s, i + 1)

\* str.strip()
RECURSIVE Strip(_)
Strip(s) ==
    IF s = <<>> THEN s
    ELSE IF s[1] \in Whitespace THEN Strip(Tail(s))
    ELSE IF s[Len(s)] \in Whitespace THEN Strip(SubSeq(s, 1, Len(s) - 1))
    ELSE s

\* Python truthiness of an optional string: None and '' are falsy
Falsy(text) == text = NoneText \/ text = <<>>

\* RestaurantExtractor.clean_text
clean_text(text) ==
    IF Falsy(text) THEN <<>>
    ELSE Lower(Strip(CollapseWhitespace(RemoveUrls(text, 1), 1)))

\* ------------------------------------------------------------------------
\* Fuzzy score (rapidfuzz.fuzz.partial_ratio), in units of 1/10000
\* ------------------------------------------------------------------------
Max(a, b) == IF a >= b THEN a ELSE b
Min(a, b) == IF a <= b THEN a ELSE b

\* length of the longest common subsequence of a[1..i] and b[1..j]
RECURSIVE LCS(_, _, _, _)
LCS(a, i, b, j) ==
    IF i = 0 \/ j = 0 THEN 0
    ELSE IF a[i] = b[j] THEN 1 + LCS(a, i - 1, b, j - 1)
    ELSE Max(LCS(a, i - 1, b, j), LCS(a, i, b, j - 1))

\* fuzz.ratio: normalised Indel similarity, 2*LCS/(len1+len2)
Ratio(a, b) ==
    IF Len(a) + Len(b) = 0 THEN 10000
    ELSE (20000 * LCS(a, Len(a), b, Len(b))) \div (Len(a) + Len(b))

\* fuzz.partial_ratio: best ratio of the shorter string against the windows
\* of the longer one (windows of the shorter string's length, clipped at
\* both ends of the longer string)
partial_ratio(s1, s2) ==
    LET short == IF Len(s1) <= Len(s2) THEN s1 ELSE s2
        long  == IF Len(s1) <= Len(s2) THEN s2 ELSE s1
        n     == Len(short)
        Window(i) == SubSeq(long, Max(1, i), Min(Len(long), i + n - 1))
        Best[i \in (2 - n)..(Len(long) + 1)] ==
            IF i > Len(long) THEN 0
            ELSE Max(Ratio(short, Window(i)), Best[i + 1])
    IN  IF n = 0 THEN (IF Len(long) = 0 THEN 10000 ELSE 0)
        ELSE IF IsSubstring(short, long) THEN 10000
        ELSE Best[2 - n]

\* round(score, 2), in hundredths, for a score given in 1/10000
\* (round-half-even)
Round2(score) ==
    LET q == score \div 100
        r == score % 100
    IN  IF r > 50 \/ (r = 50 /\ q % 2 = 1) THEN q + 1 ELSE q

\* ------------------------------------------------------------------------
\* RestaurantExtractor
\* ------------------------------------------------------------------------
\* the lexicon, in dict insertion order
KNOWN_RESTAURANTS ==
    <<
       [keyword |-> <<"p","a","i">>, restaurant_name |-> "Pai Northern Thai Kitchen"],
       [keyword |-> <<"k","e","n","z","o">>, restaurant_name |-> "Kenzo Ramen"],
       [keyword |-> <<"a","l","o">>, restaurant_name |-> "Alo"],
       [keyword |-> <<"c","a","n","t","e","e","n">>, restaurant_name |-> "Canteen"],
       [keyword |-> <<"r","a","m","e","n">>, restaurant_name |-> "Ramen Restaurant"],
       [keyword |-> <<"m","o","l","l","y">>, restaurant_name |-> "Molly's Cafe"],
       [keyword |-> <<"h","o","t"," ","p","o","t">>, restaurant_name |-> "Hot Pot Restaurant"],
       [keyword |-> <<"s","h","i","m">>, restaurant_name |-> "Shim Korean BBQ"],
       [keyword |-> <<"g","o","r","o">>, restaurant_name |-> "Goro Ramen"],
       [keyword |-> <<"p","i","r","i">>, restaurant_name |-> "Piri Piri Grille"],
       [keyword |-> <<"b","o","k","u">>, restaurant_name |-> "Boku Sushi"],
       [keyword |-> <<"p","e","a","c","h","e","s">>, restaurant_name |-> "Peaches Restaurant"],
       [keyword |-> <<"g","i","u","l","i","o">>, restaurant_name |-> "Giulio Pizzeria"],
       [keyword |-> <<"s","u">>, restaurant_name |-> "Su Sushi"],
       [keyword |-> <<"k","i","m">>, restaurant_name |-> "Kim's Korean BBQ"],
       [keyword |-> <<"t","a","b","a","s","c","o">>, restaurant_name |-> "Tabasco Grille"],
       [keyword |-> <<"s","u","s","h","i">>, restaurant_name |-> "Sushi Restaurant"],
       [keyword |-> <<"p","i","z","z","a">>, restaurant_name |-> "Pizza Restaurant"],
       [keyword |-> <<"b","b","q">>, restaurant_name |-> "BBQ Restaurant"]
    >>

\* body of the for loop of extract_restaurants without seen.add (mutant)
ScanStepNoSeenAdd(cleaned, st, k) ==
    LET keyword         == KNOWN_RESTAURANTS[k].keyword
        restaurant_name == KNOWN_RESTAURANTS[k].restaurant_name
        score           == partial_ratio(cleaned, keyword)
    IN  IF IsSubstring(keyword, cleaned)
           /\ score >= 6000 /\ restaurant_name \notin st.seen
        THEN [restaurants |-> Append(st.restaurants,
                                [name         |-> restaurant_name,
                                 mentioned_as |-> keyword,
                                 confidence   |-> Round2(score)]),
              seen |-> st.seen]
        ELSE st

\* body of the for loop of extract_restaurants with restaurants.insert(0, ..)
\* in place of restaurants.append(..) (mutant)
ScanStepPrepend(cleaned, st, k) ==
    LET keyword         == KNOWN_RESTAURANTS[k].keyword
        restaurant_name == KNOWN_RESTAURANTS[k].restaurant_name
        score           == partial_ratio(cleaned, keyword)
    IN  IF IsSubstring(keyword, cleaned)
           /\ score >= 6000 /\ restaurant_name \notin st.seen
        THEN [restaurants |-> <<[name         |-> restaurant_name,
                                 mentioned_as |-> keyword,
                                 confidence   |-> Round2(score)]>>
                              \o st.restaurants,
              seen |-> st.seen \cup {restaurant_name}]
        ELSE st

\* body of the for loop of extract_restaurants for lexicon entry k;
\* st holds the locals `restaurants` and `seen`
ScanStep(cleaned, st, k) ==
    LET keyword         == KNOWN_RESTAURANTS[k].keyword
        restaurant_name == KNOWN_RESTAURANTS[k].restaurant_name
        score           == partial_ratio(cleaned, keyword)
    IN  IF IsSubstring(keyword, cleaned)
           /\ score >= 6000 /\ restaurant_name \notin st.seen
        THEN [restaurants |-> Append(st.restaurants,
                                [name         |-> restaurant_name,
                                 mentioned_as |-> keyword,
                                 confidence   |-> Round2(score)]),
              seen |-> st.seen \cup {restaurant_name}]
        ELSE st

\* the for loop of extract_restaurants from lexicon entry k on
RECURSIVE ScanFrom(_, _, _)
ScanFrom(cleaned, st, k) ==
    IF k > Len(KNOWN_RESTAURANTS) THEN st
    ELSE ScanFrom(cleaned, ScanStep(cleaned, st, k), k + 1)

\* RestaurantExtractor.extract_restaurants as a function of the caption
extract_restaurants(caption) ==
    IF Falsy(caption) THEN <<>>
    ELSE ScanFrom(clean_text(caption),
                  [restaurants |-> <<>>, seen |-> {}], 1).restaurants

\* ------------------------------------------------------------------------
\* State
\* ------------------------------------------------------------------------
VARIABLES
    \* environment
    APIFY_TOKEN,      \* os.getenv('APIFY_TOKEN'): None, '' or a token
    SUPABASE_URL,     \* os.getenv('SUPABASE_URL')
    SUPABASE_KEY,     \* os.getenv('SUPABASE_KEY')
    \* extract_restaurants frame
    xpc,              \* "idle", "scan", "returned"
    caption,          \* the argument
    cleaned,          \* local `cleaned`
    seen,             \* local `seen`
    restaurants,      \* local `restaurants`, the return value
    kw,               \* position of the for loop in KNOWN_RESTAURANTS
    \* scrape_tiktok_with_apify frame
    spc,              \* "idle", "entry", "submit", "poll", "fetch", "returned"
    hashtag,          \* the argument
    elapsed,          \* time.time() - start_time
    run_status,       \* local `run_status`
    posts,            \* the return value
    outcome,          \* how the call ended (JobStatus of the spec)
    n_submit,         \* POST /runs requests issued by this call
    n_status,         \* GET /runs/{id} requests issued by this call
    n_dataset,        \* GET /runs/{id}/dataset/items requests issued
    http_error,       \* a request of this call raised
    videos,           \* <<the dataset the backend returned>>, <<>> before
    \* main frame (apify_scraper.py)
    mpc,              \* "idle", "scrape", "wait", "upload", "done"
    hi,               \* position of the for loop in `hashtags`
    all_posts,
    processed_posts,
    json_file,        \* <<contents of posts_raw_<timestamp>.json>>, <<>> if unwritten
    success,          \* local `success`: None, "True" or "False"
    job_log,          \* per finished scrape call: hashtag, outcome, posts
    backend_called,   \* some request reached the scrape backend in this run
    \* persister frame
    upc,              \* "idle", "check", "loop", "script_posts",
                      \* "script_rests", "returned"
    ufn,              \* which persister function runs
    rows_in,          \* the posts / csv rows handed to the persister
    ui,               \* position of the for loop
    uploaded,
    errors,
    attempts,         \* keys of the upserts issued by this call, in order
    n_ok,             \* upserts of this call the store accepted
    uret,             \* return value / exit status of the persister
    latest_csv,       \* upload_to_supabase.py main: local `latest_csv`
    \* remote table store
    tiktok_posts,     \* rows of table tiktok_posts
    restaurants_tbl,  \* rows of table restaurants
    last_write,       \* per table: the last accepted row of every key
    \* main frame (thegab_scraper.py), from line 176 on
    apc,              \* "idle", "start", "count", "stats", "done"
    tg_all_posts,     \* local `all_posts`
    tg_processed,     \* local `processed_posts`
    restaurant_mentions,  \* the Counter: <<[name, count]>> in insertion order
    restaurant_stats  \* local `restaurant_stats`, the rows of the metrics csv

envvars == <<APIFY_TOKEN, SUPABASE_URL, SUPABASE_KEY>>
xvars   == <<xpc, caption, cleaned, seen, restaurants, kw>>
svars   == <<spc, hashtag, elapsed, run_status, posts, outcome,
             n_submit, n_status, n_dataset, http_error, videos>>
mvars   == <<mpc, hi, all_posts, processed_posts, json_file, success,
             job_log, backend_called>>
uvars   == <<upc, ufn, rows_in, ui, uploaded, errors, attempts, n_ok,
             uret, latest_csv>>
dbvars  == <<tiktok_posts, restaurants_tbl, last_write>>
avars   == <<apc, tg_all_posts, tg_processed, restaurant_mentions,
             restaurant_stats>>
vars    == <<envvars, avars, xvars, svars, mvars, uvars, dbvars>>

\* ------------------------------------------------------------------------
\* Frames at rest
\* ------------------------------------------------------------------------
ExtractIdle ==
    /\ xpc = "idle" /\ caption = NoneText /\ cleaned = <<>>
    /\ seen = {} /\ restaurants = <<>> /\ kw = 0

ScrapeIdle ==
    /\ spc = "idle" /\ hashtag = None /\ elapsed = 0 /\ run_status = None
    /\ posts = <<>> /\ outcome = None /\ n_submit = 0 /\ n_status = 0
    /\ n_dataset = 0 /\ http_error = FALSE /\ videos = <<>>

MainIdle ==
    /\ mpc = "idle" /\ hi = 0 /\ all_posts = <<>> /\ processed_posts = <<>>
    /\ json_file = <<>> /\ success = None /\ job_log = <<>>
    /\ backend_called = FALSE

PersistIdle ==
    /\ upc = "idle" /\ ufn = None /\ rows_in = <<>> /\ ui = 0
    /\ uploaded = 0 /\ errors = 0 /\ attempts = <<>> /\ n_ok = 0
    /\ uret = None /\ latest_csv = None

StoreEmpty ==
    /\ tiktok_posts = <<>> /\ restaurants_tbl = <<>>
    /\ last_write = [tiktok_posts |-> {}, restaurants |-> {}]

AggregateIdle ==
    /\ apc = "idle" /\ tg_all_posts = <<>> /\ tg_processed = <<>>
    /\ restaurant_mentions = <<>> /\ restaurant_stats = <<>>

EnvAllSet ==
    /\ APIFY_TOKEN = "token" /\ SUPABASE_URL = "url" /\ SUPABASE_KEY = "key"

\* ------------------------------------------------------------------------
\* Program constants
\* ------------------------------------------------------------------------
\* `max_wait = 600  # 10 minutes`
max_wait == 600
\* `time.sleep(10)` between two status checks
poll_interval == 10
\* `timeout=30` of the status request
request_timeout == 30
\* `hashtags = ['torontofood', 'torontorestaurants']`
hashtags == <<"torontofood", "torontorestaurants">>

\* ------------------------------------------------------------------------
\* The scrape backend as seen by the client
\* ------------------------------------------------------------------------
\* durations of one status request, in seconds
ReqLatencies == {0, request_timeout}

\* run statuses that are neither SUCCEEDED nor FAILED
NonTerminal == {"RUNNING", "ABORTED"}

\* what a status request can come back with; "error" stands for a transport
\* error, a non-2xx response (raise_for_status) or an undecodable body
StatusReplies == NonTerminal \cup {"SUCCEEDED", "FAILED", "error"}

\* raw video objects of a dataset; JSON scalars are tagged with their type
\* (str, num), a text is a sequence of characters, JSON null text is NoneText
RawRecords ==
    { [id           |-> [num |-> 7],
       description  |-> <<"r","a","m","e","n"," ","a","t"," ","K","e","n","z","o">>,
       diggCount    |-> [num |-> 10],
       commentCount |-> [num |-> 2],
       shareCount   |-> [num |-> 1],
       playCount    |-> [num |-> 90]],
      [description  |-> NoneText,
       diggCount    |-> [str |-> "1.2K"]] }

\* the datasets a fetch can return
Datasets == UNION { [1..n -> RawRecords] : n \in 0..MaxRecords }

\* ------------------------------------------------------------------------
\* Transform of raw records (scrape_tiktok_with_apify, lines 159-176)
\* ------------------------------------------------------------------------
\* dict.get(key, default)
Get(d, key, default) == IF key \in DOMAIN d THEN d[key] ELSE default

Digits == <<"0","1","2","3","4","5","6","7","8","9">>

\* str() of a JSON scalar (numbers 0..9 only)
Str(v) ==
    IF "str" \in DOMAIN v THEN v.str
    ELSE IF "num" \in DOMAIN v THEN Digits[v.num + 1]
    ELSE "None"

\* the dict built for one video
post_of_video(video, tag) ==
    [id          |-> Str(Get(video, "id", [str |-> ""])),
     url         |-> Get(video, "videoUrl", [str |-> ""]),
     caption     |-> Get(video, "description", <<>>),
     likes       |-> Get(video, "diggCount", [num |-> 0]),
     comments    |-> Get(video, "commentCount", [num |-> 0]),
     shares      |-> Get(video, "shareCount", [num |-> 0]),
     views       |-> Get(video, "playCount", [num |-> 0]),
     creator     |-> Get(video, "authorId", [str |-> ""]),
     create_time |-> "now",
     hashtag     |-> tag,
     scraped_at  |-> "now",
     source      |-> "apify"]

\* the loop building `posts` that loses the first video (mutant)
TransformVideosDropFirst(vs, tag) ==
    [i \in 1..(Len(vs) - 1) |-> post_of_video(vs[i + 1], tag)]

\* the loop building `posts` that skips a video without an id instead of
\* building its post (mutant)
TransformVideosSkipNoId(vs, tag) ==
    LET kept == SelectSeq(vs, LAMBDA v : "id" \in DOMAIN v)
    IN  [i \in 1..Len(kept) |-> post_of_video(kept[i], tag)]

\* the loop building `posts` from `videos`
TransformVideos(vs, tag) ==
    [i \in 1..Len(vs) |-> post_of_video(vs[i], tag)]

\* the while condition: time.time() - start_time < max_wait
WithinBudget(t) == t < max_wait

\* the clock after a sleep of one second (mutant)
AfterSleepShort(t) == t + 1

\* the clock after time.sleep(10)
AfterSleep(t) == t + poll_interval

\* ------------------------------------------------------------------------
\* scrape_tiktok_with_apify
\* ------------------------------------------------------------------------
\* `return []` with the given outcome
ScrapeReturnEmpty(how) ==
    /\ posts' = <<>>
    /\ outcome' = how
    /\ spc' = "returned"

\* lines 87-91 with the credential check left out (mutant)
ScrapeEntryNoCheck ==
    /\ spc = "entry"
    /\ spc' = "submit"
    /\ UNCHANGED <<hashtag, elapsed, run_status, posts, outcome, n_submit,
                   n_status, n_dataset, http_error, videos>>
    /\ UNCHANGED <<envvars, avars, xvars, mvars, uvars, dbvars>>

\* lines 87-91: the credential check
ScrapeEntry ==
    /\ spc = "entry"
    /\ IF APIFY_TOKEN = None \/ APIFY_TOKEN = ""
       THEN ScrapeReturnEmpty("NO_TOKEN")
       ELSE /\ spc' = "submit"
            /\ UNCHANGED <<posts, outcome>>
    /\ UNCHANGED <<hashtag, elapsed, run_status, n_submit, n_status,
                   n_dataset, http_error, videos>>
    /\ UNCHANGED <<envvars, avars, xvars, mvars, uvars, dbvars>>

\* lines 114-129: POST the run, read the run id, start the clock
Submit ==
    /\ spc = "submit"
    /\ n_submit' = n_submit + 1
    /\ backend_called' = TRUE
    /\ \E reply \in {"ok", "error"} :
          IF reply = "ok"
          THEN /\ spc' = "poll"
               /\ elapsed' = 0
               /\ UNCHANGED <<posts, outcome, http_error>>
          ELSE /\ ScrapeReturnEmpty("ERROR")
               /\ http_error' = TRUE
               /\ UNCHANGED elapsed
    /\ UNCHANGED <<hashtag, run_status, n_status, n_dataset, videos>>
    /\ UNCHANGED <<mpc, hi, all_posts, processed_posts, json_file, success,
                   job_log>>
    /\ UNCHANGED <<envvars, avars, xvars, uvars, dbvars>>

\* lines 131-146 where a failed status request is tried again (mutant)
StatusCheckRetry ==
    /\ spc = "poll"
    /\ WithinBudget(elapsed)
    /\ n_status' = n_status + 1
    /\ backend_called' = TRUE
    /\ \E reply \in StatusReplies, d \in ReqLatencies :
          IF reply = "error"
          THEN /\ http_error' = TRUE
               /\ elapsed' = AfterSleep(elapsed + d)
               /\ UNCHANGED <<run_status, posts, outcome, spc>>
          ELSE /\ run_status' = reply
               /\ UNCHANGED http_error
               /\ IF reply = "SUCCEEDED"
                  THEN /\ spc' = "fetch"
                       /\ elapsed' = elapsed + d
                       /\ UNCHANGED <<posts, outcome>>
                  ELSE IF reply = "FAILED"
                  THEN /\ ScrapeReturnEmpty("FAILED")
                       /\ elapsed' = elapsed + d
                  ELSE /\ elapsed' = AfterSleep(elapsed + d)
                       /\ UNCHANGED <<posts, outcome, spc>>
    /\ UNCHANGED <<hashtag, n_submit, n_dataset, videos>>
    /\ UNCHANGED <<mpc, hi, all_posts, processed_posts, json_file, success,
                   job_log>>
    /\ UNCHANGED <<envvars, avars, xvars, uvars, dbvars>>

\* lines 131-146 where the status request has no timeout and may never come
\* back (mutant)
StatusCheckNoTimeout ==
    /\ spc = "poll"
    /\ WithinBudget(elapsed)
    /\ n_status' = n_status + 1
    /\ backend_called' = TRUE
    /\ \/ /\ spc' = "blocked"
          /\ UNCHANGED <<elapsed, run_status, posts, outcome, http_error>>
       \/ \E reply \in StatusReplies, d \in ReqLatencies :
             IF reply = "error"
             THEN /\ ScrapeReturnEmpty("ERROR")
                  /\ http_error' = TRUE
                  /\ elapsed' = elapsed + d
                  /\ UNCHANGED run_status
             ELSE /\ run_status' = reply
                  /\ UNCHANGED http_error
                  /\ IF reply = "SUCCEEDED"
                     THEN /\ spc' = "fetch"
                          /\ elapsed' = elapsed + d
                          /\ UNCHANGED <<posts, outcome>>
                     ELSE IF reply = "FAILED"
                     THEN /\ ScrapeReturnEmpty("FAILED")
                          /\ elapsed' = elapsed + d
                     ELSE /\ elapsed' = AfterSleep(elapsed + d)
                          /\ UNCHANGED <<posts, outcome, spc>>
    /\ UNCHANGED <<hashtag, n_submit, n_dataset, videos>>
    /\ UNCHANGED <<mpc, hi, all_posts, processed_posts, json_file, success,
                   job_log>>
    /\ UNCHANGED <<envvars, avars, xvars, uvars, dbvars>>

\* lines 131-146: one iteration of the polling loop
StatusCheck ==
    /\ spc = "poll"
    /\ WithinBudget(elapsed)
    /\ n_status' = n_status + 1
    /\ backend_called' = TRUE
    /\ \E reply \in StatusReplies, d \in ReqLatencies :
          IF reply = "error"
          THEN /\ ScrapeReturnEmpty("ERROR")
               /\ http_error' = TRUE
               /\ elapsed' = elapsed + d
               /\ UNCHANGED run_status
          ELSE /\ run_status' = reply
               /\ UNCHANGED http_error
               /\ IF reply = "SUCCEEDED"
                  THEN /\ spc' = "fetch"
                       /\ elapsed' = elapsed + d
                       /\ UNCHANGED <<posts, outcome>>
                  ELSE IF reply = "FAILED"
                  THEN /\ ScrapeReturnEmpty("FAILED")
                       /\ elapsed' = elapsed + d
                  ELSE /\ elapsed' = AfterSleep(elapsed + d)
                       /\ UNCHANGED <<posts, outcome, spc>>
    /\ UNCHANGED <<hashtag, n_submit, n_dataset, videos>>
    /\ UNCHANGED <<mpc, hi, all_posts, processed_posts, json_file, success,
                   job_log>>
    /\ UNCHANGED <<envvars, avars, xvars, uvars, dbvars>>

\* lines 147-149 without the `return []`: the call goes on to the dataset
\* (mutant)
PollTimeoutFetch ==
    /\ spc = "poll"
    /\ ~WithinBudget(elapsed)
    /\ spc' = "fetch"
    /\ UNCHANGED <<posts, outcome>>
    /\ UNCHANGED <<hashtag, elapsed, run_status, n_submit, n_status,
                   n_dataset, http_error, videos>>
    /\ UNCHANGED <<envvars, avars, xvars, mvars, uvars, dbvars>>

\* lines 147-149: the else branch of the while loop
PollTimeout ==
    /\ spc = "poll"
    /\ ~WithinBudget(elapsed)
    /\ ScrapeReturnEmpty("TIMED_OUT")
    /\ UNCHANGED <<hashtag, elapsed, run_status, n_submit, n_status,
                   n_dataset, http_error, videos>>
    /\ UNCHANGED <<envvars, avars, xvars, mvars, uvars, dbvars>>

\* lines 151-179: GET the dataset, build the posts, return them
FetchDataset ==
    /\ spc = "fetch"
    /\ n_dataset' = n_dataset + 1
    /\ backend_called' = TRUE
    /\ \/ /\ ScrapeReturnEmpty("ERROR")
          /\ http_error' = TRUE
          /\ UNCHANGED videos
       \/ \E ds \in Datasets :
             /\ videos' = <<ds>>
             /\ posts' = TransformVideos(ds, hashtag)
             /\ outcome' = "SUCCEEDED"
             /\ spc' = "returned"
             /\ UNCHANGED http_error
    /\ UNCHANGED <<hashtag, elapsed, run_status, n_submit, n_status>>
    /\ UNCHANGED <<mpc, hi, all_posts, processed_posts, json_file, success,
                   job_log>>
    /\ UNCHANGED <<envvars, avars, xvars, uvars, dbvars>>

\* ------------------------------------------------------------------------
\* The remote table store
\* ------------------------------------------------------------------------
\* a table is a bag of rows: the number of stored copies of each row

\* .insert(row): adds a row whatever the table holds (mutant)
InsertRow(table, row, key) ==
    [r \in DOMAIN table \cup {row} |->
        IF r = row THEN (IF row \in DOMAIN table THEN table[row] + 1 ELSE 1)
        ELSE table[r]]

\* .upsert(row): the rows with the key of `row` are replaced by `row`
Upsert(table, row, key) ==
    [r \in {x \in DOMAIN table : x[key] # row[key]} \cup {row} |->
        IF r = row THEN 1 ELSE table[r]]

\* number of stored rows with key value k
RowsWithKey(table, key, k) ==
    LET rs == {r \in DOMAIN table : r[key] = k}
        Sum[S \in SUBSET rs] ==
            IF S = {} THEN 0
            ELSE LET r == CHOOSE x \in S : TRUE
                 IN  table[r] + Sum[S \ {r}]
    IN  Sum[rs]

\* the last accepted write per key, after `row` was accepted
Remember(written, row, key) ==
    {r \in written : r[key] # row[key]} \cup {row}

\* ------------------------------------------------------------------------
\* Persisters
\* ------------------------------------------------------------------------
\* `not SUPABASE_URL or not SUPABASE_KEY`
StoreCredentialsMissing == SUPABASE_URL = None \/ SUPABASE_KEY = None

\* json.dumps(value): the JSON text of a value
json_dumps(value) == [json |-> value]

\* the row built from a post (apify_scraper.py lines 206-220,
\* upload_to_supabase.py lines 50-64)
post_row(post) ==
    [id          |-> Get(post, "id", None),
     url         |-> Get(post, "url", [str |-> None]),
     caption     |-> Get(post, "caption", <<>>),
     likes       |-> Get(post, "likes", [num |-> 0]),
     comments    |-> Get(post, "comments", [num |-> 0]),
     shares      |-> Get(post, "shares", [num |-> 0]),
     views       |-> Get(post, "views", [num |-> 0]),
     creator     |-> Get(post, "creator", [str |-> ""]),
     create_time |-> Get(post, "create_time", None),
     hashtag     |-> Get(post, "hashtag", None),
     restaurants |-> json_dumps(Get(post, "restaurants", <<>>)),
     has_restaurant_mention |-> Get(post, "has_restaurant_mention", FALSE),
     scraped_at  |-> Get(post, "scraped_at", None)]

\* the row built from a line of the metrics csv (upload_to_supabase.py
\* lines 97-104)
restaurant_row(row) ==
    [name             |-> row.restaurant,
     mentions         |-> row.mentions,
     posts            |-> row.posts,
     total_engagement |-> row.total_engagement,
     avg_engagement   |-> row.avg_engagement,
     last_updated     |-> "now"]

\* `return False` of the credential check of upload_to_supabase
MissingCredentialsReturn == "False"

\* `return uploaded > 0`
UploadReturnValue(n) == IF n > 0 THEN "True" ELSE "False"

\* lines of a restaurant_metrics_<timestamp>.csv
CsvRows ==
    { [restaurant |-> "Alo", mentions |-> 2, posts |-> 2,
       total_engagement |-> 18, avg_engagement |-> 9],
      [restaurant |-> "Alo", mentions |-> 1, posts |-> 1,
       total_engagement |-> 5, avg_engagement |-> 5],
      [restaurant |-> "Canteen", mentions |-> 1, posts |-> 1,
       total_engagement |-> 0, avg_engagement |-> 0] }

\* the metrics files upload_to_supabase.py can find
CsvFiles == UNION { [1..n -> CsvRows] : n \in 0..MaxCsvRows }

\* one upsert of a row into tiktok_posts: accepted or raising
WritePost(row) ==
    \E ok \in BOOLEAN :
        /\ attempts' = Append(attempts, row.id)
        /\ IF ok
           THEN /\ tiktok_posts' = Upsert(tiktok_posts, row, "id")
                /\ last_write' = [last_write EXCEPT !.tiktok_posts =
                                     Remember(@, row, "id")]
                /\ uploaded' = uploaded + 1
                /\ n_ok' = n_ok + 1
                /\ UNCHANGED errors
           ELSE /\ errors' = errors + 1
                /\ UNCHANGED <<tiktok_posts, last_write, uploaded, n_ok>>

\* apify_scraper.py lines 189-202: credential check, client, counters
UploadCheck ==
    /\ upc = "check"
    /\ IF StoreCredentialsMissing
       THEN /\ uret' = MissingCredentialsReturn
            /\ upc' = "returned"
            /\ UNCHANGED <<ui, uploaded, errors>>
       ELSE /\ uploaded' = 0
            /\ errors' = 0
            /\ ui' = 1
            /\ upc' = "loop"
            /\ UNCHANGED uret
    /\ UNCHANGED <<ufn, rows_in, attempts, n_ok, latest_csv>>
    /\ UNCHANGED <<envvars, avars, xvars, svars, mvars, dbvars>>

\* apify_scraper.py lines 204-230 where a failed write ends the loop (mutant)
UploadPostStopOnError ==
    /\ upc = "loop"
    /\ ui <= Len(rows_in)
    /\ WritePost(post_row(rows_in[ui]))
    /\ ui' = IF errors' > errors THEN Len(rows_in) + 1 ELSE ui + 1
    /\ UNCHANGED restaurants_tbl
    /\ UNCHANGED <<upc, ufn, rows_in, uret, latest_csv>>
    /\ UNCHANGED <<envvars, avars, xvars, svars, mvars>>

\* apify_scraper.py lines 204-230: one iteration of the upload loop
UploadPost ==
    /\ upc = "loop"
    /\ ui <= Len(rows_in)
    /\ WritePost(post_row(rows_in[ui]))
    /\ ui' = ui + 1
    /\ UNCHANGED restaurants_tbl
    /\ UNCHANGED <<upc, ufn, rows_in, uret, latest_csv>>
    /\ UNCHANGED <<envvars, avars, xvars, svars, mvars>>

\* apify_scraper.py lines 232-236
UploadReturn ==
    /\ upc = "loop"
    /\ ui > Len(rows_in)
    /\ uret' = UploadReturnValue(uploaded)
    /\ upc' = "returned"
    /\ UNCHANGED <<ufn, rows_in, ui, uploaded, errors, attempts, n_ok,
                   latest_csv>>
    /\ UNCHANGED <<envvars, avars, xvars, svars, mvars, dbvars>>

\* upload_to_supabase.py lines 47-75: one iteration of the loop of
\* upload_posts_to_supabase
ScriptUploadPost ==
    /\ upc = "script_posts"
    /\ ui <= Len(rows_in)
    /\ WritePost(post_row(rows_in[ui]))
    /\ ui' = ui + 1
    /\ UNCHANGED restaurants_tbl
    /\ UNCHANGED <<upc, ufn, rows_in, uret, latest_csv>>
    /\ UNCHANGED <<envvars, avars, xvars, svars, mvars>>

\* upload_to_supabase.py lines 77-92 and 144-150: upload_posts_to_supabase
\* returns to main, which goes on with the metrics csv if there is one;
\* upload_restaurants_to_supabase reads its rows
ScriptPostsDone ==
    /\ upc = "script_posts"
    /\ ui > Len(rows_in)
    /\ IF latest_csv # None
       THEN /\ rows_in' \in CsvFiles
            /\ ui' = 1
            /\ uploaded' = 0
            /\ errors' = 0
            /\ attempts' = <<>>
            /\ n_ok' = 0
            /\ upc' = "script_rests"
            /\ UNCHANGED uret
       ELSE /\ uret' = "exit(0)"
            /\ upc' = "returned"
            /\ UNCHANGED <<rows_in, ui, uploaded, errors, attempts, n_ok>>
    /\ UNCHANGED <<ufn, latest_csv>>
    /\ UNCHANGED <<envvars, avars, xvars, svars, mvars, dbvars>>

\* upload_to_supabase.py lines 95-115: one iteration of the loop of
\* upload_restaurants_to_supabase
ScriptUploadRestaurant ==
    /\ upc = "script_rests"
    /\ ui <= Len(rows_in)
    /\ LET data == restaurant_row(rows_in[ui])
       IN  \E ok \in BOOLEAN :
             /\ attempts' = Append(attempts, data.name)
             /\ IF ok
                THEN /\ restaurants_tbl' = Upsert(restaurants_tbl, data, "name")
                     /\ last_write' = [last_write EXCEPT !.restaurants =
                                          Remember(@, data, "name")]
                     /\ uploaded' = uploaded + 1
                     /\ n_ok' = n_ok + 1
                     /\ UNCHANGED errors
                ELSE /\ errors' = errors + 1
                     /\ UNCHANGED <<restaurants_tbl, last_write, uploaded, n_ok>>
    /\ ui' = ui + 1
    /\ UNCHANGED tiktok_posts
    /\ UNCHANGED <<upc, ufn, rows_in, uret, latest_csv>>
    /\ UNCHANGED <<envvars, avars, xvars, svars, mvars>>

\* upload_to_supabase.py lines 117-119 and 148-150
ScriptRestaurantsDone ==
    /\ upc = "script_rests"
    /\ ui > Len(rows_in)
    /\ uret' = "exit(0)"
    /\ upc' = "returned"
    /\ UNCHANGED <<ufn, rows_in, ui, uploaded, errors, attempts, n_ok,
                   latest_csv>>
    /\ UNCHANGED <<envvars, avars, xvars, svars, mvars, dbvars>>

\* ------------------------------------------------------------------------
\* main (apify_scraper.py)
\* ------------------------------------------------------------------------
\* lines 277-281 where the flag is set only for more than one mention
\* (mutant)
process_post_flag_many(post) ==
    LET rs == extract_restaurants(Get(post, "caption", <<>>))
    IN  [restaurants |-> rs, has_restaurant_mention |-> Len(rs) > 1] @@ post

\* lines 277-281: the post annotated with its mentions
process_post(post) ==
    LET rs == extract_restaurants(Get(post, "caption", <<>>))
    IN  [restaurants |-> rs, has_restaurant_mention |-> Len(rs) > 0] @@ post

\* lines 273-282
process_posts(ps) == [i \in 1..Len(ps) |-> process_post(ps[i])]

\* lines 257-259: call scrape_tiktok_with_apify for the next hashtag
MainScrapeCall ==
    /\ mpc = "scrape"
    /\ hi <= Len(hashtags)
    /\ spc = "idle"
    /\ hashtag' = hashtags[hi]
    /\ spc' = "entry"
    /\ mpc' = "wait"
    /\ UNCHANGED <<elapsed, run_status, posts, outcome, n_submit, n_status,
                   n_dataset, http_error, videos>>
    /\ UNCHANGED <<hi, all_posts, processed_posts, json_file, success,
                   job_log, backend_called>>
    /\ UNCHANGED <<envvars, avars, xvars, uvars, dbvars>>

\* the scrape frame is dropped
ScrapeFrameDropped ==
    /\ spc' = "idle" /\ hashtag' = None /\ elapsed' = 0 /\ run_status' = None
    /\ posts' = <<>> /\ outcome' = None /\ n_submit' = 0 /\ n_status' = 0
    /\ n_dataset' = 0 /\ http_error' = FALSE /\ videos' = <<>>

\* line 260 where an empty result ends the hashtag loop (mutant)
MainExtendStopOnEmpty ==
    /\ mpc = "wait"
    /\ spc = "returned"
    /\ all_posts' = all_posts \o posts
    /\ job_log' = Append(job_log, [hashtag |-> hashtag, outcome |-> outcome,
                                   posts |-> posts, n_submit |-> n_submit])
    /\ hi' = IF posts = <<>> THEN Len(hashtags) + 1 ELSE hi + 1
    /\ mpc' = "scrape"
    /\ ScrapeFrameDropped
    /\ UNCHANGED <<processed_posts, json_file, success, backend_called>>
    /\ UNCHANGED <<envvars, avars, xvars, uvars, dbvars>>

\* line 260 where main does not wait for the call to return: it goes on to
\* the next hashtag while the run is still polled (mutant)
MainExtendEarly ==
    /\ mpc = "wait"
    /\ spc \in {"poll", "returned"}
    /\ all_posts' = all_posts \o posts
    /\ job_log' = Append(job_log, [hashtag |-> hashtag, outcome |-> outcome,
                                   posts |-> posts, n_submit |-> n_submit])
    /\ hi' = hi + 1
    /\ mpc' = "scrape"
    /\ ScrapeFrameDropped
    /\ UNCHANGED <<processed_posts, json_file, success, backend_called>>
    /\ UNCHANGED <<envvars, avars, xvars, uvars, dbvars>>

\* line 260: all_posts.extend(posts), next hashtag
MainExtend ==
    /\ mpc = "wait"
    /\ spc = "returned"
    /\ all_posts' = all_posts \o posts
    /\ job_log' = Append(job_log, [hashtag |-> hashtag, outcome |-> outcome,
                                   posts |-> posts, n_submit |-> n_submit])
    /\ hi' = hi + 1
    /\ mpc' = "scrape"
    /\ ScrapeFrameDropped
    /\ UNCHANGED <<processed_posts, json_file, success, backend_called>>
    /\ UNCHANGED <<envvars, avars, xvars, uvars, dbvars>>

\* lines 265-267: nothing scraped
MainNoPosts ==
    /\ mpc = "scrape"
    /\ hi > Len(hashtags)
    /\ Len(all_posts) = 0
    /\ mpc' = "done"
    /\ UNCHANGED <<hi, all_posts, processed_posts, json_file, success,
                   job_log, backend_called>>
    /\ UNCHANGED <<envvars, avars, xvars, svars, uvars, dbvars>>

\* lines 269-328: annotate the posts, write posts_raw_<timestamp>.json,
\* call upload_to_supabase
MainProcess ==
    /\ mpc = "scrape"
    /\ hi > Len(hashtags)
    /\ Len(all_posts) # 0
    /\ processed_posts' = process_posts(all_posts)
    /\ json_file' = <<processed_posts'>>
    /\ mpc' = "upload"
    /\ upc' = "check"
    /\ ufn' = "upload_to_supabase"
    /\ rows_in' = processed_posts'
    /\ UNCHANGED <<ui, uploaded, errors, attempts, n_ok, uret, latest_csv>>
    /\ UNCHANGED <<hi, all_posts, success, job_log, backend_called>>
    /\ UNCHANGED <<envvars, avars, xvars, svars, dbvars>>

\* lines 328-336: the result of the upload is reported
MainFinish ==
    /\ mpc = "upload"
    /\ upc = "returned"
    /\ success' = uret
    /\ mpc' = "done"
    /\ UNCHANGED <<hi, all_posts, processed_posts, json_file, job_log,
                   backend_called>>
    /\ UNCHANGED <<envvars, avars, xvars, svars, uvars, dbvars>>

\* ------------------------------------------------------------------------
\* Callers of the persisters
\* ------------------------------------------------------------------------
\* processed posts a caller can hand to a persister: the same video under
\* two hashtags, a second video, and a post with few fields and an empty id
PersistPosts ==
    { [id |-> "v1", url |-> [str |-> "u1"], caption |-> <<"a","l","o">>,
       likes |-> [num |-> 10], comments |-> [num |-> 2],
       shares |-> [num |-> 1], views |-> [num |-> 90],
       creator |-> [str |-> "c1"], create_time |-> "now",
       hashtag |-> "torontofood", scraped_at |-> "now", source |-> "apify",
       restaurants |-> << [name |-> "Alo", mentioned_as |-> <<"a","l","o">>,
                           confidence |-> 100] >>,
       has_restaurant_mention |-> TRUE],
      [id |-> "v1", url |-> [str |-> "u1"], caption |-> <<"a","l","o">>,
       likes |-> [num |-> 10], comments |-> [num |-> 2],
       shares |-> [num |-> 1], views |-> [num |-> 90],
       creator |-> [str |-> "c1"], create_time |-> "now",
       hashtag |-> "torontorestaurants", scraped_at |-> "now",
       source |-> "apify",
       restaurants |-> << [name |-> "Alo", mentioned_as |-> <<"a","l","o">>,
                           confidence |-> 100] >>,
       has_restaurant_mention |-> TRUE],
      [id |-> "7", caption |-> <<>>, likes |-> [str |-> "1.2K"],
       hashtag |-> "torontofood", restaurants |-> <<>>,
       has_restaurant_mention |-> FALSE],
      [id |-> "", hashtag |-> "torontofood"] }

PostLists == UNION { [1..n -> PersistPosts] : n \in 0..MaxPosts }

\* a new persister frame
PersistFrame(fn, rows, pc, csv) ==
    /\ ufn' = fn /\ rows_in' = rows /\ upc' = pc /\ latest_csv' = csv
    /\ ui' = 1 /\ uploaded' = 0 /\ errors' = 0 /\ attempts' = <<>>
    /\ n_ok' = 0

\* a run of the pipeline reaches line 328 with some processed posts
PersistCall ==
    /\ upc \in {"idle", "returned"}
    /\ \E ps \in PostLists :
          PersistFrame("upload_to_supabase", ps, "check", None)
    /\ uret' = None
    /\ UNCHANGED <<envvars, avars, xvars, svars, mvars, dbvars>>

\* upload_to_supabase.py is run: lines 13-22 (credentials or exit(1)) and
\* main lines 125-142 (the latest posts_raw file, if any, is uploaded)
ScriptStart ==
    /\ upc \in {"idle", "returned"}
    /\ IF StoreCredentialsMissing
       THEN /\ PersistFrame("upload_to_supabase.py", <<>>, "returned", None)
            /\ uret' = "exit(1)"
       ELSE \E json \in {<<>>} \cup {<<ps>> : ps \in PostLists},
               csv \in {None, "restaurant_metrics.csv"} :
               IF json = <<>>
               THEN /\ PersistFrame("upload_to_supabase.py", <<>>,
                                    "returned", None)
                    /\ uret' = "exit(0)"
               ELSE /\ PersistFrame("upload_to_supabase.py", json[1],
                                    "script_posts", csv)
                    /\ uret' = None
    /\ UNCHANGED <<envvars, avars, xvars, svars, mvars, dbvars>>

\* ------------------------------------------------------------------------
\* Restaurant metrics (thegab_scraper.py main, lines 164-263)
\* ------------------------------------------------------------------------
\* posts as scrape_tiktok_hashtag builds them (lines 114-127): one video
\* found under both hashtags, and two other videos per hashtag
ScrapedPosts ==
    { [id |-> "1", caption |-> <<"r","a","m","e","n"," ","a","t"," ",
                                 "K","e","n","z","o">>,
       likes |-> 10, comments |-> 2, shares |-> 1, hashtag |-> "torontofood"],
      [id |-> "1", caption |-> <<"r","a","m","e","n"," ","a","t"," ",
                                 "K","e","n","z","o">>,
       likes |-> 10, comments |-> 2, shares |-> 1,
       hashtag |-> "torontorestaurants"],
      [id |-> "2", caption |-> <<"r","a","m","e","n"," ","s","u","s","h","i">>,
       likes |-> 4, comments |-> 0, shares |-> 0, hashtag |-> "torontofood"],
      [id |-> "3", caption |-> <<"K","e","n","z","o"," ","w","w","w",".","a">>,
       likes |-> 3, comments |-> 1, shares |-> 1,
       hashtag |-> "torontorestaurants"],
      [id |-> "4", caption |-> <<>>,
       likes |-> 0, comments |-> 0, shares |-> 0, hashtag |-> "torontofood"],
      [id |-> "5", caption |-> <<"s","u","s","h","i">>,
       likes |-> 7, comments |-> 0, shares |-> 0,
       hashtag |-> "torontorestaurants"] }

\* what scrape_tiktok_hashtag can return for a hashtag: some of its videos,
\* each once, in any order
Feeds(tag) ==
    {f \in UNION { [1..n -> {p \in ScrapedPosts : p.hashtag = tag}] :
                     n \in 0..MaxBatch } :
        \A i, j \in 1..Len(f) : (f[i] = f[j]) => (i = j)}

\* what the loop of lines 164-167 can leave in all_posts: the posts of the
\* first hashtag followed by those of the second
Batches == {f \o g : f \in Feeds(hashtags[1]), g \in Feeds(hashtags[2])}

\* restaurant_mentions[name] += 1 (line 215); a Counter keeps its keys in
\* insertion order
Increment(counter, name) ==
    IF \E i \in 1..Len(counter) : counter[i].name = name
    THEN [i \in 1..Len(counter) |->
             IF counter[i].name = name
             THEN [counter[i] EXCEPT !.count = @ + 1]
             ELSE counter[i]]
    ELSE Append(counter, [name |-> name, count |-> 1])

\* the names met by the two for loops of lines 213-214, in order
RECURSIVE NamesScanned(_)
NamesScanned(ps) ==
    IF ps = <<>> THEN <<>>
    ELSE [i \in 1..Len(Head(ps).restaurants) |-> Head(ps).restaurants[i].name]
         \o NamesScanned(Tail(ps))

\* lines 212-215 for a sequence of names
RECURSIVE CountNames(_, _)
CountNames(counter, names) ==
    IF names = <<>> THEN counter
    ELSE CountNames(Increment(counter, Head(names)), Tail(names))

\* one step of a sort that puts an entry before the entries of the same
\* count (mutant)
InsertBeforeTies(sorted, item) ==
    LET k == Cardinality({i \in 1..Len(sorted) :
                             sorted[i].count > item.count})
    IN  SubSeq(sorted, 1, k) \o <<item>> \o SubSeq(sorted, k + 1, Len(sorted))

\* one step of sorted(items, key=count, reverse=True): the entry goes after
\* the entries whose count is at least its own
InsertByCount(sorted, item) ==
    LET k == Cardinality({i \in 1..Len(sorted) :
                             sorted[i].count >= item.count})
    IN  SubSeq(sorted, 1, k) \o <<item>> \o SubSeq(sorted, k + 1, Len(sorted))

RECURSIVE SortInto(_, _)
SortInto(sorted, items) ==
    IF items = <<>> THEN sorted
    ELSE SortInto(InsertByCount(sorted, Head(items)), Tail(items))

\* Counter.most_common(): the entries by descending count, entries of equal
\* count in insertion order
most_common(counter) == SortInto(<<>>, counter)

\* p.get('likes', 0) + p.get('comments', 0) + p.get('shares', 0)
Engagement(p) ==
    Get(p, "likes", 0) + Get(p, "comments", 0) + Get(p, "shares", 0)

\* sum(... for p in rest_posts)
RECURSIVE SumEngagement(_)
SumEngagement(ps) ==
    IF ps = <<>> THEN 0 ELSE Engagement(Head(ps)) + SumEngagement(Tail(ps))

\* any(r['name'] == rest_name for r in p['restaurants'])
Mentions(p, rest_name) ==
    \E i \in 1..Len(p.restaurants) : p.restaurants[i].name = rest_name

\* int(num / den): the fraction of the quotient is cut off
IntOfQuotient(num, den) ==
    IF num >= 0 THEN num \div den ELSE -((-num) \div den)

\* lines 250-260: the row of the metrics csv for one entry of the counter
stats_row(rest_name, count, processed) ==
    LET rest_posts == SelectSeq(processed, LAMBDA p : Mentions(p, rest_name))
        total_eng  == SumEngagement(rest_posts)
    IN  [restaurant       |-> rest_name,
         mentions         |-> count,
         posts            |-> Len(rest_posts),
         total_engagement |-> total_eng,
         avg_engagement   |-> IF Len(rest_posts) > 0
                              THEN IntOfQuotient(total_eng, Len(rest_posts))
                              ELSE 0]

\* lines 172-174: nothing scraped, main returns
TgNoPosts ==
    /\ apc = "start" /\ Len(tg_all_posts) = 0
    /\ apc' = "done"
    /\ UNCHANGED <<tg_all_posts, tg_processed, restaurant_mentions,
                   restaurant_stats>>
    /\ UNCHANGED <<envvars, xvars, svars, mvars, uvars, dbvars>>

\* lines 176-189: every post is annotated with its mentions
TgProcess ==
    /\ apc = "start" /\ Len(tg_all_posts) # 0
    /\ tg_processed' = process_posts(tg_all_posts)
    /\ apc' = "count"
    /\ UNCHANGED <<tg_all_posts, restaurant_mentions, restaurant_stats>>
    /\ UNCHANGED <<envvars, xvars, svars, mvars, uvars, dbvars>>

\* lines 211-215: the mentions are counted by name
TgCount ==
    /\ apc = "count"
    /\ restaurant_mentions' = CountNames(<<>>, NamesScanned(tg_processed))
    /\ apc' = "stats"
    /\ UNCHANGED <<tg_all_posts, tg_processed, restaurant_stats>>
    /\ UNCHANGED <<envvars, xvars, svars, mvars, uvars, dbvars>>

\* lines 246-263: the rows of the metrics csv, most mentioned first
TgStats ==
    /\ apc = "stats"
    /\ restaurant_stats' =
          LET ranked == most_common(restaurant_mentions)
          IN  [i \in 1..Len(ranked) |->
                  stats_row(ranked[i].name, ranked[i].count, tg_processed)]
    /\ apc' = "done"
    /\ UNCHANGED <<tg_all_posts, tg_processed, restaurant_mentions>>
    /\ UNCHANGED <<envvars, xvars, svars, mvars, uvars, dbvars>>

InitAggregate ==
    /\ EnvAllSet /\ ExtractIdle /\ ScrapeIdle /\ MainIdle /\ PersistIdle
    /\ StoreEmpty
    /\ apc = "start" /\ tg_all_posts \in Batches
    /\ tg_processed = <<>> /\ restaurant_mentions = <<>>
    /\ restaurant_stats = <<>>

NextAggregate == TgNoPosts \/ TgProcess \/ TgCount \/ TgStats

SpecAggregate == InitAggregate /\ [][NextAggregate]_vars

\* ------------------------------------------------------------------------
\* extract_restaurants, one lexicon entry per step
\* ------------------------------------------------------------------------
\* concatenation of a sequence of texts
RECURSIVE Concat(_)
Concat(ss) == IF ss = <<>> THEN <<>> ELSE Head(ss) \o Concat(Tail(ss))

\* building blocks of the captions tried
Fragments ==
    { <<"s","u","s","h","i">>,
      <<"r","a","m","e","n">>,
      <<"k","e","n","z","o">>,
      <<"K","i","m">>,
      <<" ">>,
      <<"\n">>,
      <<"H","T","T","P",":","/","/","x">>,
      <<"w","w","w",".","a">> }

Captions ==
    {NoneText} \cup
    UNION { {Concat(fs) : fs \in [1..n -> Fragments]} : n \in 0..MaxFrags }

\* lines 62-67: the empty-caption return, else clean and start the scan
ExtractEnter ==
    /\ xpc = "idle"
    /\ IF Falsy(caption)
       THEN /\ restaurants' = <<>>
            /\ xpc' = "returned"
            /\ UNCHANGED <<cleaned, seen, kw>>
       ELSE /\ restaurants' = <<>>
            /\ cleaned' = clean_text(caption)
            /\ seen' = {}
            /\ kw' = 1
            /\ xpc' = "scan"
    /\ UNCHANGED <<caption, envvars, avars, svars, mvars, uvars, dbvars>>

\* lines 69-79: one iteration of the for loop
ExtractScan ==
    /\ xpc = "scan"
    /\ kw <= Len(KNOWN_RESTAURANTS)
    /\ LET st == ScanStep(cleaned, [restaurants |-> restaurants, seen |-> seen], kw)
       IN  /\ restaurants' = st.restaurants
           /\ seen' = st.seen
    /\ kw' = kw + 1
    /\ UNCHANGED <<xpc, caption, cleaned, envvars, avars, svars, mvars, uvars, dbvars>>

\* line 81
ExtractReturn ==
    /\ xpc = "scan"
    /\ kw > Len(KNOWN_RESTAURANTS)
    /\ xpc' = "returned"
    /\ UNCHANGED <<caption, cleaned, seen, restaurants, kw,
                   envvars, avars, svars, mvars, uvars, dbvars>>

InitExtract ==
    /\ EnvAllSet /\ ScrapeIdle /\ MainIdle /\ PersistIdle /\ StoreEmpty
    /\ AggregateIdle
    /\ xpc = "idle" /\ caption \in Captions /\ cleaned = <<>>
    /\ seen = {} /\ restaurants = <<>> /\ kw = 0

NextExtract == ExtractEnter \/ ExtractScan \/ ExtractReturn

SpecExtract == InitExtract /\ [][NextExtract]_vars

\* ------------------------------------------------------------------------
\* Properties of extract_restaurants
\* ------------------------------------------------------------------------
MentionNames(rs) == {rs[i].name : i \in 1..Len(rs)}

\* C10: at every point of the lexicon scan, and in the returned list, no two
\* mentions carry the same canonical name, and the names of the mentions
\* accepted so far are exactly the set `seen`.
C10_DistinctNames ==
    /\ \A i, j \in 1..Len(restaurants) :
          restaurants[i].name = restaurants[j].name => i = j
    /\ MentionNames(restaurants) = seen

\* a finished scan that accepted two mentions ('su' and 'sushi' of "sushi")
C10_Witness ==
    /\ xpc = "returned"
    /\ Len(restaurants) >= 2
    /\ \E i, j \in 1..Len(restaurants) :
          /\ i < j
          /\ IsSubstring(restaurants[i].mentioned_as, restaurants[j].mentioned_as)

\* C11: clean_text applied to its own result changes nothing.
C11_CleanTextIdempotent ==
    (xpc \in {"scan", "returned"} /\ ~Falsy(caption)) =>
       clean_text(cleaned) = cleaned

\* the lexicon entries extract_restaurants has to report for a cleaned text:
\* the keyword occurs in it and no earlier entry with the same canonical name
\* does
Reportable(text) ==
    {k \in 1..Len(KNOWN_RESTAURANTS) :
        /\ IsSubstring(KNOWN_RESTAURANTS[k].keyword, text)
        /\ \A j \in 1..(k - 1) :
              ~(/\ IsSubstring(KNOWN_RESTAURANTS[j].keyword, text)
                /\ KNOWN_RESTAURANTS[j].restaurant_name
                      = KNOWN_RESTAURANTS[k].restaurant_name)}

\* position of entry k among the entries S, in lexicon order
RankIn(S, k) == Cardinality({j \in S : j <= k})

\* C12: for a non-empty caption extract_restaurants returns exactly one
\* mention per lexicon keyword that occurs in the cleaned caption and whose
\* name was not accepted before, in lexicon order, each with confidence
\* >= 0.60; for an empty or None caption it returns the empty list.
C12_MentionsInLexiconOrder ==
    (xpc = "returned") =>
       IF Falsy(caption) THEN restaurants = <<>>
       ELSE LET M == Reportable(clean_text(caption))
            IN  /\ Len(restaurants) = Cardinality(M)
                /\ \A k \in M :
                      LET m == restaurants[RankIn(M, k)]
                      IN  /\ m.name = KNOWN_RESTAURANTS[k].restaurant_name
                          /\ m.mentioned_as = KNOWN_RESTAURANTS[k].keyword
                          /\ m.confidence >= 60

\* "ramen kenzo": 'ramen' comes first in the caption, 'kenzo' first in the
\* lexicon and in the result
C12_Witness ==
    /\ xpc = "returned"
    /\ caption = <<"r","a","m","e","n"," ","k","e","n","z","o">>
    /\ Len(restaurants) = 2
    /\ restaurants[1].name = "Kenzo Ramen"
    /\ restaurants[2].name = "Ramen Restaurant"

\* ------------------------------------------------------------------------
\* Properties of the restaurant metrics
\* ------------------------------------------------------------------------
\* the names mentioned in the processed batch
BatchNames ==
    {NamesScanned(tg_processed)[k] : k \in 1..Len(NamesScanned(tg_processed))}

\* the (post, mention) pairs of the batch with the given name
PairsWith(name) ==
    UNION { { <<i, j>> : j \in {j \in 1..Len(tg_processed[i].restaurants) :
                                  tg_processed[i].restaurants[j].name = name} }
            : i \in 1..Len(tg_processed) }

\* the ids of the posts of the batch that mention the name
IdsWith(name) ==
    {tg_processed[i].id : i \in {i \in 1..Len(tg_processed) :
                                    Mentions(tg_processed[i], name)}}

\* likes + comments + shares of the post with the given id
EngagementOfId(id) ==
    Engagement(tg_processed[CHOOSE i \in 1..Len(tg_processed) :
                               tg_processed[i].id = id])

RECURSIVE SumOverIds(_)
SumOverIds(ids) ==
    IF ids = {} THEN 0
    ELSE LET id == CHOOSE x \in ids : TRUE
         IN  EngagementOfId(id) + SumOverIds(ids \ {id})

\* C13: the metrics have one row per name of the batch, with mentions = the
\* number of (post, mention) pairs of that name, posts = the number of
\* distinct posts with that name and total_engagement = the engagement
\* summed over those distinct posts, also when a post id occurs twice.
C13_RollupCounts ==
    (apc = "done") =>
       /\ {restaurant_stats[r].restaurant : r \in 1..Len(restaurant_stats)}
             = BatchNames
       /\ \A r \in 1..Len(restaurant_stats) :
             LET row == restaurant_stats[r]
             IN  /\ row.mentions = Cardinality(PairsWith(row.restaurant))
                 /\ row.posts = Cardinality(IdsWith(row.restaurant))
                 /\ row.total_engagement = SumOverIds(IdsWith(row.restaurant))

\* C14: avg_engagement is the exact quotient total_engagement / posts, and 0
\* when posts = 0.
C14_ExactQuotient ==
    (apc = "done") =>
       \A r \in 1..Len(restaurant_stats) :
          LET row == restaurant_stats[r]
          IN  IF row.posts = 0 THEN row.avg_engagement = 0
              ELSE row.avg_engagement * row.posts = row.total_engagement

\* position of the first occurrence of the name in the scan of the posts and
\* their mentions
FirstSeen(name) ==
    LET names == NamesScanned(tg_processed)
    IN  CHOOSE k \in 1..Len(names) :
           /\ names[k] = name
           /\ \A j \in 1..(k - 1) : names[j] # name

\* C15: the rows of the metrics are in descending order of mentions, and rows
\* of equal mentions are in the order in which their names were first seen.
C15_SortedByMentions ==
    (apc = "done") =>
       /\ Len(restaurant_stats) = Cardinality(BatchNames)
       /\ \A i, j \in 1..Len(restaurant_stats) :
             (i < j) =>
                \/ restaurant_stats[i].mentions > restaurant_stats[j].mentions
                \/ /\ restaurant_stats[i].mentions
                         = restaurant_stats[j].mentions
                   /\ FirstSeen(restaurant_stats[i].restaurant)
                         < FirstSeen(restaurant_stats[j].restaurant)

\* 'Ramen Restaurant' and 'Kenzo Ramen' are both mentioned twice and come in
\* first-seen order (the lexicon has them the other way round), before a name
\* mentioned once
C15_Witness ==
    /\ apc = "done"
    /\ Len(restaurant_stats) >= 3
    /\ restaurant_stats[1].restaurant = "Ramen Restaurant"
    /\ restaurant_stats[2].restaurant = "Kenzo Ramen"
    /\ restaurant_stats[1].mentions = 2 /\ restaurant_stats[2].mentions = 2
    /\ restaurant_stats[3].mentions = 1

\* C23: every processed post has has_restaurant_mention true exactly when
\* its list of restaurants is not empty, and every row of the metrics has as
\* many mentions as posts.
C23_MentionsEqualPosts ==
    /\ \A i \in 1..Len(tg_processed) :
          tg_processed[i].has_restaurant_mention
             <=> (tg_processed[i].restaurants # <<>>)
    /\ (apc = "done") =>
          \A r \in 1..Len(restaurant_stats) :
             restaurant_stats[r].mentions = restaurant_stats[r].posts

\* metrics of a batch with a post without mentions, a post with one mention
\* and a name mentioned in two posts
C23_Witness ==
    /\ apc = "done"
    /\ \E i \in 1..Len(tg_processed) :
          ~tg_processed[i].has_restaurant_mention
    /\ \E i \in 1..Len(tg_processed) :
          /\ tg_processed[i].has_restaurant_mention
          /\ Len(tg_processed[i].restaurants) = 1
    /\ \E r \in 1..Len(restaurant_stats) :
          restaurant_stats[r].mentions = 2 /\ restaurant_stats[r].posts = 2

\* ------------------------------------------------------------------------
\* Specifications
\* ------------------------------------------------------------------------
EnvChoices ==
    /\ APIFY_TOKEN \in {None, "", "token"}
    /\ SUPABASE_URL \in {None, "url"}
    /\ SUPABASE_KEY \in {None, "key"}

\* one run of apify_scraper.py main, at the hashtag loop (line 257)
Init ==
    /\ EnvChoices
    /\ ExtractIdle /\ ScrapeIdle /\ PersistIdle /\ StoreEmpty
    /\ AggregateIdle
    /\ mpc = "scrape" /\ hi = 1 /\ all_posts = <<>> /\ processed_posts = <<>>
    /\ json_file = <<>> /\ success = None /\ job_log = <<>>
    /\ backend_called = FALSE

Next ==
    \/ MainScrapeCall \/ ScrapeEntry \/ Submit \/ StatusCheck \/ PollTimeout
    \/ FetchDataset \/ MainExtend \/ MainNoPosts \/ MainProcess
    \/ UploadCheck \/ UploadPost \/ UploadReturn \/ MainFinish

Spec == Init /\ [][Next]_vars

\* any sequence of persister calls against one store
InitPersist ==
    /\ APIFY_TOKEN = "token"
    /\ SUPABASE_URL \in {None, "url"}
    /\ SUPABASE_KEY \in {None, "key"}
    /\ ExtractIdle /\ ScrapeIdle /\ MainIdle /\ PersistIdle /\ StoreEmpty
    /\ AggregateIdle

NextPersist ==
    \/ PersistCall \/ UploadCheck \/ UploadPost \/ UploadReturn
    \/ ScriptStart \/ ScriptUploadPost \/ ScriptPostsDone
    \/ ScriptUploadRestaurant \/ ScriptRestaurantsDone

SpecPersist == InitPersist /\ [][NextPersist]_vars

\* one call of scrape_tiktok_with_apify for a hashtag.  The call is one
\* thread of control, so it takes its next step as long as it has one, and
\* every request ends within its timeout.
InitPoll ==
    /\ EnvChoices
    /\ ExtractIdle /\ MainIdle /\ PersistIdle /\ StoreEmpty /\ AggregateIdle
    /\ spc = "entry" /\ hashtag \in {hashtags[i] : i \in 1..Len(hashtags)}
    /\ elapsed = 0 /\ run_status = None /\ posts = <<>> /\ outcome = None
    /\ n_submit = 0 /\ n_status = 0 /\ n_dataset = 0 /\ http_error = FALSE
    /\ videos = <<>>

NextPoll == ScrapeEntry \/ Submit \/ StatusCheck \/ PollTimeout \/ FetchDataset

SpecPoll == InitPoll /\ [][NextPoll]_vars /\ WF_vars(NextPoll)

\* ------------------------------------------------------------------------
\* Properties of scrape_tiktok_with_apify and main
\* ------------------------------------------------------------------------
TokenMissing == APIFY_TOKEN = None \/ APIFY_TOKEN = ""

Terminal == {"SUCCEEDED", "FAILED"}

\* requests of the current scrape call
Requests == n_submit + n_status + n_dataset

\* C1: when the status checks of a call returned non-terminal statuses and
\* then SUCCEEDED, the call has requested the dataset exactly once when it
\* returns, and it returns one post per record of the fetched dataset, in
\* dataset order (nothing if the dataset request itself raised).
C1_SucceededFetchesOnce ==
    /\ (spc = "fetch") => (run_status = "SUCCEEDED" /\ n_dataset = 0)
    /\ (spc = "returned" /\ run_status = "SUCCEEDED") =>
          /\ n_dataset = 1
          /\ n_submit = 1
          /\ IF videos # <<>>
             THEN /\ outcome = "SUCCEEDED"
                  /\ Len(posts) = Len(videos[1])
                  /\ \A i \in 1..Len(posts) :
                        posts[i] = post_of_video(videos[1][i], hashtag)
             ELSE http_error /\ posts = <<>>

\* statuses RUNNING, RUNNING, SUCCEEDED, then a dataset of two different
\* videos returned as two posts
C1_Witness ==
    /\ spc = "returned" /\ run_status = "SUCCEEDED" /\ n_status = 3
    /\ Len(posts) = 2 /\ posts[1].id # posts[2].id

\* C2: a call issues at most max_wait/poll_interval + 1 status checks, and a
\* call whose status checks never returned SUCCEEDED or FAILED (and never
\* raised) ends TIMED_OUT with an empty result once the budget is used up.
C2_TimeoutBound ==
    /\ n_status <= max_wait \div poll_interval + 1
    /\ (spc = "returned" /\ n_submit = 1 /\ ~http_error
           /\ run_status \notin Terminal) =>
          (outcome = "TIMED_OUT" /\ posts = <<>> /\ ~WithinBudget(elapsed))
    /\ (outcome = "TIMED_OUT") =>
          (spc = "returned" /\ posts = <<>> /\ run_status \notin Terminal
             /\ n_dataset = 0)

\* a call that timed out after the largest number of status checks
C2_Witness ==
    /\ spc = "returned" /\ outcome = "TIMED_OUT"
    /\ n_status = max_wait \div poll_interval

\* s occurs in t as a block of consecutive elements
IsBlockOf(s, t) ==
    \E off \in 0..(Len(t) - Len(s)) :
        \A k \in 1..Len(s) : t[off + k] = s[k]

\* C3: when the hashtag loop of main is over, scrape_tiktok_with_apify was
\* called once for every hashtag, in order, whatever the earlier calls ended
\* with; with the token present each call submitted a run; and the posts of
\* every call that succeeded are in all_posts.
C3_EveryHashtagAttempted ==
    (mpc # "wait" /\ hi > Len(hashtags)) =>
       /\ Len(job_log) = Len(hashtags)
       /\ \A i \in 1..Len(job_log) :
             /\ job_log[i].hashtag = hashtags[i]
             /\ ~TokenMissing => job_log[i].n_submit = 1
             /\ job_log[i].outcome = "SUCCEEDED" =>
                   IsBlockOf(job_log[i].posts, all_posts)

\* the first hashtag failed, the second one succeeded with posts
C3_Witness ==
    /\ hi > Len(hashtags) /\ Len(job_log) = 2
    /\ job_log[1].outcome \in {"ERROR", "FAILED", "TIMED_OUT"}
    /\ job_log[2].outcome = "SUCCEEDED"
    /\ job_log[2].posts # <<>>
    /\ all_posts = job_log[2].posts

\* C4: once a request of a call has raised, the call issues no further
\* request (the failed request is not repeated) and has returned the empty
\* list.
C4_NoRequestAfterError ==
    /\ [](http_error => (spc = "returned" /\ posts = <<>> /\ outcome = "ERROR"))
    /\ [][http_error => Requests' <= Requests]_vars

\* a status request raised after two successful status checks
C4_Witness ==
    /\ http_error /\ spc = "returned" /\ n_status = 3 /\ n_dataset = 0

\* C5: without APIFY_TOKEN no request is sent to the backend, for any
\* hashtag, and every call returns the empty list.
C5_NoTokenNoRequest ==
    TokenMissing =>
       /\ ~backend_called
       /\ Requests = 0
       /\ spc \in {"idle", "entry", "returned"}
       /\ spc = "returned" => (posts = <<>> /\ outcome = "NO_TOKEN")
       /\ all_posts = <<>>
       /\ \A i \in 1..Len(job_log) :
             job_log[i].n_submit = 0 /\ job_log[i].posts = <<>>

\* the token is missing and the call for the second hashtag has returned
C5_Witness ==
    /\ TokenMissing /\ spc = "returned" /\ outcome = "NO_TOKEN"
    /\ Len(job_log) = 1

\* C6: if the scrape token or a store credential is missing, the run makes no
\* request to the scrape backend, writes no local output file and writes no
\* store record.
C6_MissingCredentialNoSideEffect ==
    (TokenMissing \/ StoreCredentialsMissing) =>
       /\ ~backend_called
       /\ json_file = <<>>
       /\ DOMAIN tiktok_posts = {}

\* ------------------------------------------------------------------------
\* Properties of the persisters
\* ------------------------------------------------------------------------
\* the upserts of the current call so far are those of the first n posts,
\* in order, and the counters add up
WrittenUpTo(n) ==
    /\ Len(attempts) = n
    /\ \A i \in 1..n : attempts[i] = post_row(rows_in[i]).id
    /\ uploaded + errors = n
    /\ uploaded = n_ok

\* C7: the post persisters issue one upsert per post, in order, whichever
\* writes fail: after k iterations the first k posts were attempted and
\* uploaded + errors = k, uploaded counting the accepted writes; at the end
\* k is the number of posts.
C7_EveryPostAttemptedOnce ==
    /\ (upc \in {"loop", "script_posts"}) =>
          (ui <= Len(rows_in) + 1 /\ WrittenUpTo(ui - 1))
    /\ (upc = "returned" /\ ufn = "upload_to_supabase"
           /\ ~StoreCredentialsMissing) =>
          WrittenUpTo(Len(rows_in))

\* upload_to_supabase returned after two posts, the first write or the
\* second one having failed
C7_Witness ==
    /\ upc = "returned" /\ ufn = "upload_to_supabase"
    /\ Len(rows_in) = 2 /\ uploaded = 1 /\ errors = 1

\* table holds one row per key value, the last accepted row of that key
OneRowPerKey(table, key, written) ==
    /\ \A r \in DOMAIN table : RowsWithKey(table, key, r[key]) = 1
    /\ DOMAIN table = written

\* C8: whatever persister calls were made, tiktok_posts holds at most one
\* row per id, restaurants at most one row per name, and the stored row is
\* the last accepted write of its key.
C8_OneRowPerKey ==
    /\ OneRowPerKey(tiktok_posts, "id", last_write.tiktok_posts)
    /\ OneRowPerKey(restaurants_tbl, "name", last_write.restaurants)

\* the same video was written twice in one call, under two hashtags, and a
\* restaurant was written before
C8_Witness ==
    /\ upc = "returned" /\ attempts = <<"v1", "v1">> /\ n_ok = 2
    /\ rows_in[1] # rows_in[2]
    /\ \E r \in DOMAIN tiktok_posts : r.id = "v1" /\ r.hashtag = rows_in[2].hashtag
    /\ DOMAIN restaurants_tbl # {}

\* C9: what upload_to_supabase returns when every write failed differs from
\* what it returns when the store credentials are missing.
C9_MissingCredentialsDistinct ==
    (upc = "returned" /\ ufn = "upload_to_supabase"
        /\ ~StoreCredentialsMissing /\ Len(rows_in) > 0
        /\ errors = Len(rows_in)) =>
       uret # MissingCredentialsReturn

\* ------------------------------------------------------------------------
\* Properties of the transform step
\* ------------------------------------------------------------------------
\* C16: every post built from a fetched raw record, and every post handed to
\* upload_to_supabase, has a non-empty id.
C16_NonEmptyIds ==
    /\ \A i \in 1..Len(posts) : posts[i].id # ""
    /\ (ufn = "upload_to_supabase") =>
          \A i \in 1..Len(rows_in) : rows_in[i].id # ""

\* a JSON scalar that is a non-negative integer
IsCount(v) == "num" \in DOMAIN v /\ v.num >= 0

\* C17: a fetched dataset yields one post per raw record, a missing counter
\* becomes 0, a missing text field becomes the empty string, and every
\* counter of every post is a non-negative integer.
C17_TransformTotal ==
    (spc = "returned" /\ outcome = "SUCCEEDED") =>
       /\ Len(posts) = Len(videos[1])
       /\ \A i \in 1..Len(posts) :
             LET video == videos[1][i]
                 post  == posts[i]
             IN  /\ ("diggCount" \notin DOMAIN video) => post.likes = [num |-> 0]
                 /\ ("commentCount" \notin DOMAIN video)
                       => post.comments = [num |-> 0]
                 /\ ("videoUrl" \notin DOMAIN video) => post.url = [str |-> ""]
                 /\ ("description" \notin DOMAIN video) => post.caption = <<>>
                 /\ IsCount(post.likes) /\ IsCount(post.comments)
                 /\ IsCount(post.shares) /\ IsCount(post.views)

\* ------------------------------------------------------------------------
\* Properties of the request protocol
\* ------------------------------------------------------------------------
\* C18: within a call, the run is submitted before anything else; a status
\* check is issued only after a submission that did not fail, while no
\* status check returned SUCCEEDED or FAILED and the budget is not used up;
\* the dataset is requested only after a status check returned SUCCEEDED,
\* and at most once.
C18_ProtocolOrder ==
    [][ /\ (n_submit' > n_submit) => (Requests = 0)
        /\ (n_status' > n_status) =>
              /\ n_submit = 1 /\ ~http_error /\ n_dataset = 0
              /\ run_status \notin Terminal
              /\ outcome # "TIMED_OUT" /\ WithinBudget(elapsed)
        /\ (n_dataset' > n_dataset) =>
              /\ n_dataset = 0 /\ n_status >= 1
              /\ run_status = "SUCCEEDED" /\ outcome # "TIMED_OUT"
        /\ (run_status = "FAILED" \/ outcome = "TIMED_OUT") =>
              Requests' <= Requests ]_vars

\* a call that went through the whole protocol: submission, two status
\* checks, one dataset request
C18_Witness ==
    /\ spc = "returned" /\ outcome = "SUCCEEDED"
    /\ n_submit = 1 /\ n_status = 2 /\ n_dataset = 1

\* C19: a call that entered the polling loop eventually returns, whatever
\* statuses the backend reports, and the loop is left only on a status
\* SUCCEEDED or FAILED, on a failed request, or when the budget is used up.
C19_PollerReturns ==
    /\ (spc = "poll") ~> (spc = "returned")
    /\ [][ (spc = "poll" /\ spc' # "poll") =>
              \/ run_status' \in Terminal
              \/ http_error'
              \/ (~WithinBudget(elapsed) /\ outcome' = "TIMED_OUT") ]_vars

\* the backend reported ABORTED until the budget was used up
C19_Witness ==
    /\ spc = "returned" /\ outcome = "TIMED_OUT" /\ run_status = "ABORTED"
    /\ n_status >= 2

\* C20: when the polling loop has ended, no more than max_wait seconds have
\* passed since it started.
C20_LoopWithinBudget ==
    (spc \in {"fetch", "returned"} /\ n_status > 0) => elapsed <= max_wait

\* ------------------------------------------------------------------------
\* Properties of the hashtag loop
\* ------------------------------------------------------------------------
\* the outcomes a call that submitted a run can end with
JobOutcomes == {"SUCCEEDED", "FAILED", "ERROR", "TIMED_OUT"}

\* C21: while a call of scrape_tiktok_with_apify is in progress main waits
\* for it, and the run of a hashtag is submitted only when the calls for all
\* earlier hashtags, and no others, have ended with an outcome.
C21_OneJobAtATime ==
    /\ [](spc # "idle" => (mpc = "wait" /\ Len(job_log) = hi - 1))
    /\ [][ (n_submit' > n_submit) =>
              /\ hashtag = hashtags[hi]
              /\ Len(job_log) = hi - 1
              /\ \A i \in 1..Len(job_log) :
                    /\ job_log[i].hashtag = hashtags[i]
                    /\ job_log[i].outcome \in JobOutcomes ]_vars

\* the run of the second hashtag is being polled after the first one
\* timed out
C21_Witness ==
    /\ spc = "poll" /\ n_submit = 1 /\ hashtag = hashtags[2]
    /\ Len(job_log) = 1 /\ job_log[1].outcome = "TIMED_OUT"

\* C22: the posts a call hands to main are either one post per record of
\* the dataset it fetched or none at all, and all_posts is the concatenation
\* of the posts of the calls in the order of the hashtags.
C22_AllOrNothing ==
    /\ [](all_posts = Concat([i \in 1..Len(job_log) |-> job_log[i].posts]))
    /\ [](\A i \in 1..Len(job_log) : job_log[i].hashtag = hashtags[i])
    /\ [][ (Len(job_log') > Len(job_log)) =>
              /\ job_log'[Len(job_log')].posts = posts
              /\ all_posts' = all_posts \o posts
              /\ \/ posts = <<>>
                 \/ /\ videos # <<>>
                    /\ Len(posts) = Len(videos[1])
                    /\ \A i \in 1..Len(posts) :
                          posts[i].hashtag = hashtag ]_vars

\* the first hashtag gave two posts, the second one, and all_posts holds
\* them in this order
C22_Witness ==
    /\ hi > Len(hashtags) /\ Len(job_log) = 2
    /\ Len(job_log[1].posts) = 2 /\ Len(job_log[2].posts) = 1
    /\ Len(all_posts) = 3
    /\ all_posts[2].hashtag = hashtags[1] /\ all_posts[3].hashtag = hashtags[2]

====
